---- MODULE Spec2Model ----
(***************************************************************************)
(* Model of the research-report workflow: the Start-run handler            *)
(* (app/api/reports/generate/route.ts), the cancel handler                 *)
(* (app/api/reports/[reportId]/cancel/route.ts) and the Inngest function   *)
(* generateResearchReport with its five steps and its catch block.         *)
(***************************************************************************)
EXTENDS Integers, Sequences, FiniteSets, TLC

(***************************************************************************)
(* Bounds of the model.                                                    *)
(***************************************************************************)
MaxReq == 2
MaxCredits == 2
MaxCancels == 2
MaxDeletes == 1

(***************************************************************************)
(* Program constants.                                                      *)
(***************************************************************************)
Retries == 2
MinTopicLength == 3
MaxTopicLength == 500
GenerateWindowMs == 3600000
GenerateMaxRequests == 10
MinQuestions == 5
MaxQuestions == 7
MaxAreas == 5
GenRetries == 3
MinReportLength == 500

Users == {"u1", "u2"}
ReqIds == 1..MaxReq
ReportIds == 1..MaxReq
CancelIds == 1..MaxCancels

Null == <<>>
Some(v) == <<v>>

(***************************************************************************)
(* ReportStatus and its order.                                             *)
(***************************************************************************)
StatusOrder ==
  <<"PENDING", "PLANNING", "RESEARCHING", "CRITIQUING", "WRITING", "FORMATTING", "COMPLETED">>
TerminalStatuses == {"COMPLETED", "FAILED", "CANCELLED"}
InProgressStatuses == {"PENDING", "PLANNING", "RESEARCHING", "CRITIQUING", "WRITING", "FORMATTING"}
IsTerminal(s) == s \in TerminalStatuses
Rank(s) == CHOOSE k \in 1..Len(StatusOrder) : StatusOrder[k] = s

(***************************************************************************)
(* sanitizeTopic.  A topic is a sequence of characters of three classes:   *)
(* "a" a character the filter keeps, " " whitespace, "#" a character the   *)
(* filter removes.                                                         *)
(***************************************************************************)
RECURSIVE TrimLeft(_)
TrimLeft(s) == IF s # <<>> /\ Head(s) = " " THEN TrimLeft(Tail(s)) ELSE s

RECURSIVE TrimRight(_)
TrimRight(s) ==
  IF s # <<>> /\ s[Len(s)] = " " THEN TrimRight(SubSeq(s, 1, Len(s) - 1)) ELSE s

Trim(s) == TrimRight(TrimLeft(s))

RECURSIVE RemoveDisallowed(_)
RemoveDisallowed(s) ==
  IF s = <<>> THEN <<>>
  ELSE IF Head(s) = "#" THEN RemoveDisallowed(Tail(s))
  ELSE <<Head(s)>> \o RemoveDisallowed(Tail(s))

RECURSIVE CollapseWhitespace(_)
CollapseWhitespace(s) ==
  IF Len(s) < 2 THEN s
  ELSE IF s[1] = " " /\ s[2] = " " THEN CollapseWhitespace(Tail(s))
  ELSE <<Head(s)>> \o CollapseWhitespace(Tail(s))

sanitizeTopic(topic) ==
  IF topic = <<>> THEN [ok |-> FALSE, value |-> <<>>, err |-> "INVALID_TOPIC_TYPE"]
  ELSE LET trimmed == Trim(topic) IN
    IF Len(trimmed) < MinTopicLength
      THEN [ok |-> FALSE, value |-> <<>>, err |-> "TOPIC_TOO_SHORT"]
    ELSE IF Len(trimmed) > MaxTopicLength
      THEN [ok |-> FALSE, value |-> <<>>, err |-> "TOPIC_TOO_LONG"]
    ELSE LET sanitized == CollapseWhitespace(RemoveDisallowed(trimmed)) IN
      IF Len(sanitized) < MinTopicLength
        THEN [ok |-> FALSE, value |-> <<>>, err |-> "TOPIC_INVALID_AFTER_SANITIZATION"]
        ELSE [ok |-> TRUE, value |-> sanitized, err |-> "none"]

TopicInputs ==
  { <<>>,
    <<"a", "a">>,
    <<" ", "a", "a", " ">>,
    <<"a", "#", "#", "a">>,
    <<" ", "a", " ", " ", "a", "#">> }

(***************************************************************************)
(* checkRateLimit on the in-memory rateLimitStore.                         *)
(***************************************************************************)
RateKey(identifier, endpoint) == <<identifier, endpoint>>

checkRateLimitOffByOne(store, key, t, windowMs, maxRequests) ==
  IF key \notin DOMAIN store
    THEN [allowed |-> TRUE,
          store |-> [k \in DOMAIN store \cup {key} |->
                       IF k = key THEN [count |-> 1, resetTime |-> t + windowMs]
                       ELSE store[k]]]
  ELSE IF store[key].resetTime < t
    THEN [allowed |-> TRUE,
          store |-> [store EXCEPT ![key] = [count |-> 1, resetTime |-> t + windowMs]]]
  ELSE IF store[key].count > maxRequests
    THEN [allowed |-> FALSE, store |-> store]
  ELSE [allowed |-> TRUE,
        store |-> [store EXCEPT ![key].count = @ + 1]]
checkRateLimit(store, key, t, windowMs, maxRequests) ==
  IF key \notin DOMAIN store
    THEN [allowed |-> TRUE,
          store |-> [k \in DOMAIN store \cup {key} |->
                       IF k = key THEN [count |-> 1, resetTime |-> t + windowMs]
                       ELSE store[k]]]
  ELSE IF store[key].resetTime < t
    THEN [allowed |-> TRUE,
          store |-> [store EXCEPT ![key] = [count |-> 1, resetTime |-> t + windowMs]]]
  ELSE IF store[key].count >= maxRequests
    THEN [allowed |-> FALSE, store |-> store]
  ELSE [allowed |-> TRUE,
        store |-> [store EXCEPT ![key].count = @ + 1]]

(***************************************************************************)
(* State.                                                                  *)
(***************************************************************************)
VARIABLES
  credits,        \* User.credits, per user
  initCredits,    \* credits at the start (history)
  reports,        \* Report table: report id -> record
  nextId,         \* next report id to assign
  req,            \* Start-run handler invocations
  rateLimitStore, \* in-memory rate limit entries
  now,            \* Date.now()
  run,            \* Inngest function runs: report id -> run state
  cancelEvents,   \* research/report.cancelled events not yet processed, per report id
  canc,           \* cancel handler invocations
  hist,           \* history of each report id (for the properties)
  call,           \* the last call of an agent function made on its own: input and result
  windows,        \* history of the checkRateLimit calls, per key
  del             \* Delete-run handler invocations

vars == <<credits, initCredits, reports, nextId, req, rateLimitStore, now, run,
          cancelEvents, canc, hist, call, windows, del>>

\* History of the calls on one key: the time of the allowed call that
\* opened the current window (a window lasts windowMs from that call), the
\* number of calls allowed in it, and whether a call was denied in it.
RecordCall(w, key, t, windowMs, allowed) ==
  LET old == IF key \in DOMAIN w THEN w[key]
             ELSE [opened |-> 0 - 1, allowed |-> 0, denied |-> FALSE]
      new == IF ~allowed THEN [old EXCEPT !.denied = TRUE]
             ELSE IF old.opened < 0 \/ t > old.opened + windowMs
               THEN [opened |-> t, allowed |-> 1, denied |-> FALSE]
             ELSE [old EXCEPT !.allowed = @ + 1]
  IN [k \in DOMAIN w \cup {key} |-> IF k = key THEN new ELSE w[k]]

NewReport(u, topic) ==
  [userId |-> u, topic |-> topic, status |-> "PENDING",
   researchPlan |-> Null, findings |-> Null, critique |-> Null,
   finalReport |-> Null, reportMetadata |-> Null,
   errorMessage |-> Null, completedAt |-> Null]

IdleReq == [pc |-> "idle", user |-> "u1", topic |-> <<>>, snapshot |-> 0,
            reportId |-> 0, response |-> "none"]
OffReq == [IdleReq EXCEPT !.pc = "off"]

IdleCancel == [pc |-> "idle", reportId |-> 0, atCritiquing |-> FALSE,
               sent |-> FALSE, wrote |-> FALSE, response |-> "none"]

NoCall == [fn |-> "none", input |-> <<>>, output |-> <<>>]

NoHist == [cancelWritten |-> FALSE, cancelAtCritiquing |-> FALSE, cancelCalled |-> FALSE,
           triggers |-> 0, critiqueGen |-> "none", reviewGen |-> "none",
           reviewedLength |-> 0, deleted |-> FALSE, deletedInFlight |-> FALSE,
           execsAfterDelete |-> 0]

(***************************************************************************)
(* Initial states.  InitStart: the users hold any credits up to            *)
(* MaxCredits and every Start-run request may arrive.  Init: one Start-run *)
(* request, whose run the workflow engine and the cancel handler act on.   *)
(***************************************************************************)
InitCommon ==
  /\ reports = <<>>
  /\ nextId = 1
  /\ rateLimitStore = <<>>
  /\ now = 0
  /\ run = <<>>
  /\ cancelEvents = [i \in ReportIds |-> 0]
  /\ canc = [c \in CancelIds |-> IdleCancel]
  /\ hist = [i \in ReportIds |-> NoHist]
  /\ call = NoCall
  /\ windows = <<>>
  /\ del = [d \in 1..MaxDeletes |-> [pc |-> "idle", reportId |-> 0, response |-> "none"]]

InitStart ==
  /\ InitCommon
  /\ credits \in [Users -> 0..MaxCredits]
  /\ initCredits = credits
  /\ req = [r \in ReqIds |-> IdleReq]

Init ==
  /\ InitCommon
  /\ credits = [u \in Users |-> IF u = "u1" THEN 1 ELSE 0]
  /\ initCredits = credits
  /\ req = [r \in ReqIds |-> IF r = 1 THEN IdleReq ELSE OffReq]

(***************************************************************************)
(* Start-run: POST /api/reports/generate.                                  *)
(***************************************************************************)
Finish(rq, response) == [rq EXCEPT !.pc = "done", !.response = response]

\* Rate limiter, getUser (the caller's User row is read here) and
\* sanitizeTopic.
StartValidate(r) ==
  /\ req[r].pc = "idle"
  /\ \E u \in Users, t \in TopicInputs :
       LET rl == checkRateLimit(rateLimitStore, RateKey(u, "generate-report"), now,
                                GenerateWindowMs, GenerateMaxRequests)
           san == sanitizeTopic(t)
       IN /\ rateLimitStore' = rl.store
          /\ windows' = RecordCall(windows, RateKey(u, "generate-report"), now,
                                   GenerateWindowMs, rl.allowed)
          /\ req' = [req EXCEPT ![r] =
               IF ~rl.allowed THEN Finish([@ EXCEPT !.user = u], "RATE_LIMIT_EXCEEDED")
               ELSE IF ~san.ok THEN Finish([@ EXCEPT !.user = u], "INVALID_TOPIC")
               ELSE [@ EXCEPT !.pc = "validated", !.user = u, !.topic = san.value,
                              !.snapshot = credits[u]]]
  /\ UNCHANGED <<del, call, credits, initCredits, reports, nextId, now, run, cancelEvents, canc,
                 hist>>

\* The where clause of tx.user.update: credits gte 1, evaluated by the
\* database on the current row (snapshot is user.credits read by getUser).
HasCreditStale(current, snapshot) == snapshot >= 1
HasCredit(current, snapshot) == current >= 1

\* data: { credits: { decrement: 1 } }
DebitNone(c) == c
Debit(c) == c - 1

DbFaults == {"none", "update", "create"}

\* db.$transaction: conditional decrement, then report.create; an error of
\* report.create rolls the decrement back.
StartTransaction(r) ==
  /\ req[r].pc = "validated"
  /\ \E fault \in DbFaults :
       LET u == req[r].user
           updated == fault # "update" /\ HasCredit(credits[u], req[r].snapshot)
       IN IF ~updated
            THEN /\ req' = [req EXCEPT ![r] = Finish(@, "INSUFFICIENT_CREDITS")]
                 /\ UNCHANGED <<credits, reports, nextId>>
          ELSE IF fault = "create"
            THEN /\ req' = [req EXCEPT ![r] = Finish(@, "INTERNAL_ERROR")]
                 /\ UNCHANGED <<credits, reports, nextId>>
          ELSE /\ credits' = [credits EXCEPT ![u] = Debit(@)]
               /\ reports' = reports @@ (nextId :> NewReport(u, req[r].topic))
               /\ nextId' = nextId + 1
               /\ req' = [req EXCEPT ![r] = [@ EXCEPT !.pc = "created", !.reportId = nextId]]
  /\ UNCHANGED <<del, windows, call, initCredits, rateLimitStore, now, run, cancelEvents, canc, hist>>

(***************************************************************************)
(* Capability clients.  An error message is a sequence of the message      *)
(* parts that the code joins with ": ".  A generated text is a record:     *)
(* fence says whether it holds a ```json block, prose whether there is     *)
(* text around the JSON, body what the JSON text parses to ("garbage"      *)
(* when JSON.parse throws).                                                *)
(***************************************************************************)
Wrap(prefix, msg) == <<prefix>> \o msg

GenOk(text) == [ok |-> TRUE, text |-> text, err |-> "none"]
GenErr(text) == [ok |-> FALSE, text |-> text, err |-> "api error"]

\* getModel
getModel(tier) == IF tier = "premium" THEN "gpt-4o" ELSE "gpt-4o-mini"

\* the delay after the failed attempt number attempt (counted from 0)
BaseDelayMs == 1000
BackoffMsLinear(attempt) == (attempt + 1) * BaseDelayMs
BackoffMs(attempt) == (2 ^ attempt) * BaseDelayMs

RECURSIVE GenLoop(_, _, _, _, _, _)
GenLoop(script, attempt, retries, lastError, calls, delays) ==
  IF attempt >= retries
    THEN [ok |-> FALSE, text |-> script[1].text, calls |-> calls, delays |-> delays,
          err |-> <<"AI generation failed after attempts", lastError>>]
  ELSE IF script[attempt + 1].ok
    THEN [ok |-> TRUE, text |-> script[attempt + 1].text, calls |-> calls + 1,
          delays |-> delays, err |-> <<>>]
  ELSE GenLoop(script, attempt + 1, retries, script[attempt + 1].err, calls + 1,
               IF attempt < retries - 1 THEN Append(delays, BackoffMs(attempt))
               ELSE delays)

\* script[k] is the outcome of the k-th call of generateText
generateWithRetry(script, retries) == GenLoop(script, 0, retries, "null", 0, <<>>)

parseJSONResponse(text, fallback) ==
  IF text.fence = "json"
    THEN IF text.body.t = "garbage" THEN fallback ELSE text.body
  ELSE IF text.fence = "none" /\ ~text.prose /\ text.body.t # "garbage"
    THEN text.body
  ELSE fallback

Bare(body) == [fence |-> "none", prose |-> FALSE, body |-> body]
Fenced(body) == [fence |-> "json", prose |-> TRUE, body |-> body]
Chatty(body) == [fence |-> "none", prose |-> TRUE, body |-> body]

\* the scripts of generateText outcomes the engine's agents are run on
Scripts(texts) ==
  UNION { { <<GenOk(t), GenErr(t), GenErr(t)>>,
            <<GenErr(t), GenErr(t), GenOk(t)>>,
            <<GenErr(t), GenErr(t), GenErr(t)>> } : t \in texts }

Ok(v) == [ok |-> TRUE, value |-> v, err |-> <<>>]
Err(v, msg) == [ok |-> FALSE, value |-> v, err |-> msg]

Min(a, b) == IF a < b THEN a ELSE b
Ids(n) == [k \in 1..n |-> k]

(***************************************************************************)
(* parseJSONResponse on the text itself.  A text is a sequence of tokens:  *)
(* "F" the opening fence ```json and its newline, "E" a newline and the    *)
(* closing fence ```, "V" the text of a JSON object, "N" the text null,    *)
(* "P" any other characters.                                               *)
(***************************************************************************)

\* JSON.parse: throws a SyntaxError unless the text is one JSON value
JSONParse(text) ==
  IF text = <<"V">> THEN Ok([t |-> "object"])
  ELSE IF text = <<"N">> THEN Ok([t |-> "null"])
  ELSE Err([t |-> "garbage"], <<"SyntaxError">>)

\* text.match of the fence pattern, whose group is lazy: the first opening
\* fence that has a closing fence after it, up to the first such closing
\* fence
FenceStarts(text) ==
  {i \in 1..Len(text) : text[i] = "F" /\ \E j \in (i + 1)..Len(text) : text[j] = "E"}
FenceStart(text) == CHOOSE i \in FenceStarts(text) : \A k \in FenceStarts(text) : i <= k
FenceEnd(text) ==
  CHOOSE j \in (FenceStart(text) + 1)..Len(text) :
    /\ text[j] = "E"
    /\ \A k \in (FenceStart(text) + 1)..(j - 1) : text[k] # "E"
FenceGroup(text) == SubSeq(text, FenceStart(text) + 1, FenceEnd(text) - 1)

\* threw: an exception leaves the function
parseJSONResponseNoCatch(text, fallback) ==
  LET r == IF FenceStarts(text) # {} THEN JSONParse(FenceGroup(text)) ELSE JSONParse(text)
  IN [threw |-> ~r.ok, value |-> r.value]
parseJSONResponseOnText(text, fallback) ==
  LET r == IF FenceStarts(text) # {} THEN JSONParse(FenceGroup(text)) ELSE JSONParse(text)
  IN [threw |-> FALSE, value |-> IF r.ok THEN r.value ELSE fallback]

\* the characters of a text given as a record
TokenOf(body) == IF body.t = "object" THEN "V" ELSE IF body.t = "null" THEN "N" ELSE "P"
Render(text) ==
  IF text.fence = "json" THEN <<"P", "F", TokenOf(text.body), "E", "P">>
  ELSE IF text.prose THEN <<"P", TokenOf(text.body)>>
  ELSE <<TokenOf(text.body)>>

(***************************************************************************)
(* Planner (ai-agents/research-planner.ts).  Questions and areas are       *)
(* sequences of identifiers.                                               *)
(***************************************************************************)
PlanJson(t, nq, na) == [t |-> t, questions |-> Ids(nq), areas |-> Ids(na)]
FallbackPlan == PlanJson("object", 0, 0)

planResearch(gen) ==
  IF ~gen.ok THEN Err(FallbackPlan, Wrap("Failed to plan research", gen.err))
  ELSE LET plan == parseJSONResponse(gen.text, FallbackPlan) IN
    IF plan.t = "null"
      THEN Err(FallbackPlan, <<"Failed to plan research", "TypeError">>)
    ELSE IF Len(plan.questions) = 0
      THEN Err(FallbackPlan, <<"Failed to plan research", "No research questions generated">>)
    ELSE IF Len(plan.areas) = 0
      THEN Err(FallbackPlan, <<"Failed to plan research", "No research areas identified">>)
    ELSE IF Len(plan.questions) < MinQuestions
      THEN Err(FallbackPlan, <<"Failed to plan research", "Only n questions generated">>)
    ELSE Ok([plan EXCEPT
              !.questions = SubSeq(@, 1, Min(Len(@), MaxQuestions)),
              !.areas = SubSeq(@, 1, Min(Len(@), MaxAreas))])

(***************************************************************************)
(* The second planResearch of the repository (inngest/agents/planner.ts),  *)
(* which the workflow function does not import.  Its fallback is a plan of *)
(* three templated questions.                                              *)
(***************************************************************************)
PlannerTrimAbove == 7
PlannerTrimTo == 5
TemplatedQuestions == <<101, 102, 103>>

inngestPlanResearch(gen) ==
  IF ~gen.ok THEN Err(FallbackPlan, Wrap("Failed to plan research", gen.err))
  ELSE LET plan == parseJSONResponse(gen.text,
                     [t |-> "object", questions |-> TemplatedQuestions,
                      areas |-> <<>>]) IN
    IF plan.t = "null"
      THEN Err(FallbackPlan, <<"Failed to plan research", "TypeError">>)
    ELSE IF Len(plan.questions) = 0
      THEN Err(FallbackPlan, <<"Failed to plan research", "No research questions generated">>)
    ELSE Ok([plan EXCEPT
              !.questions = IF Len(@) > PlannerTrimAbove THEN SubSeq(@, 1, PlannerTrimTo)
                            ELSE @])

PlannerTexts ==
  { Chatty(PlanJson("garbage", 0, 0)),
    Bare(PlanJson("null", 0, 0)),
    Bare(PlanJson("object", 4, 3)),
    Bare(PlanJson("object", 6, 0)),
    Fenced(PlanJson("object", 8, 6)) }

(***************************************************************************)
(* Researcher (ai-agents/researcher.ts).  Numbers of the model's JSON are  *)
(* integers in units of 1/Unit.                                            *)
(***************************************************************************)
Unit == 10000

SynthJson(t, confidence) == [t |-> t, confidence |-> confidence]
FallbackSynthesis == SynthJson("object", 3000)

NoFinding == [question |-> 0, sources |-> 0, confidence |-> 0]

synthesizeFindings(gen) ==
  IF ~gen.ok THEN Err(0, Wrap("Failed to synthesize findings", gen.err))
  ELSE LET synthesis == parseJSONResponse(gen.text, FallbackSynthesis) IN
    IF synthesis.t = "null" THEN Err(0, <<"Failed to synthesize findings", "TypeError">>)
    ELSE LET c1 == IF synthesis.confidence > Unit THEN synthesis.confidence \div 100
                   ELSE synthesis.confidence
             c2 == IF c1 < 0 \/ c1 > Unit THEN Unit \div 2 ELSE c1
         IN Ok(c2)

\* o: what the search and the generation capability do for this question
researchQuestionAnySources(question, o) ==
  IF o.search = "err"
    THEN Err(NoFinding, <<"Failed to research question", "Web search failed", "Tavily API error">>)
  ELSE LET syn == synthesizeFindings(generateWithRetry(o.script, GenRetries)) IN
    IF ~syn.ok THEN Err(NoFinding, Wrap("Failed to research question", syn.err))
    ELSE Ok([question |-> question, sources |-> o.sources, confidence |-> syn.value])
researchQuestion(question, o) ==
  IF o.search = "err"
    THEN Err(NoFinding, <<"Failed to research question", "Web search failed", "Tavily API error">>)
  ELSE IF o.sources = 0
    THEN Err(NoFinding, <<"Failed to research question", "No sources found for this question">>)
  ELSE LET syn == synthesizeFindings(generateWithRetry(o.script, GenRetries)) IN
    IF ~syn.ok THEN Err(NoFinding, Wrap("Failed to research question", syn.err))
    ELSE Ok([question |-> question, sources |-> o.sources, confidence |-> syn.value])

RECURSIVE SumOf(_, _)
SumOf(seq, field) ==
  IF seq = <<>> THEN 0
  ELSE (IF field = "sources" THEN Head(seq).sources ELSE Head(seq).confidence)
       + SumOf(Tail(seq), field)

\* the sequential loop: findings and errors after questions i..Len(questions);
\* errors holds the parts of the error messages, in the order of the questions
RECURSIVE ResearchLoopFailFast(_, _, _, _, _)
ResearchLoopFailFast(questions, world, i, findings, errors) ==
  IF i > Len(questions) THEN [findings |-> findings, errors |-> errors]
  ELSE LET res == researchQuestion(questions[i], world[i]) IN
    IF res.ok
      THEN ResearchLoopFailFast(questions, world, i + 1, Append(findings, res.value), errors)
      ELSE [findings |-> <<>>, errors |-> errors \o res.err]
RECURSIVE ResearchLoop(_, _, _, _, _)
ResearchLoop(questions, world, i, findings, errors) ==
  IF i > Len(questions) THEN [findings |-> findings, errors |-> errors]
  ELSE LET res == researchQuestion(questions[i], world[i]) IN
    IF res.ok
      THEN ResearchLoop(questions, world, i + 1, Append(findings, res.value), errors)
      ELSE ResearchLoop(questions, world, i + 1, findings, errors \o res.err)

NoResearch ==
  [findings |-> <<>>,
   summary |-> [totalQuestions |-> 0, successfulResearches |-> 0,
                averageConfidence |-> 0, totalSources |-> 0]]

\* Math.round(x * 100) / 100 of the average, in units of 1/Unit
RoundedAverage(findings) ==
  IF findings = <<>> THEN 0
  ELSE ((2 * SumOf(findings, "confidence") + 100 * Len(findings))
         \div (2 * 100 * Len(findings))) * 100

\* the summary, the test that every question failed, and the result
ResearchOutcome(questions, loop) ==
  LET summary == [totalQuestions |-> Len(questions),
                  successfulResearches |-> Len(loop.findings),
                  averageConfidence |-> RoundedAverage(loop.findings),
                  totalSources |-> SumOf(loop.findings, "sources")]
  IN IF loop.findings = <<>>
       THEN Err(NoResearch,
                <<"Research failed", "All research questions failed">> \o loop.errors)
       ELSE Ok([findings |-> loop.findings, summary |-> summary])

conductResearch(questions, world) ==
  IF questions = <<>> THEN Err(NoResearch, <<"No research questions provided">>)
  ELSE ResearchOutcome(questions, ResearchLoop(questions, world, 1, <<>>, <<>>))

\* parallel: true -- Promise.allSettled on all questions, then the results
\* are taken in the order of the questions
RECURSIVE SettledLoop(_, _, _, _)
SettledLoop(results, k, findings, errors) ==
  IF k > Len(results) THEN [findings |-> findings, errors |-> errors]
  ELSE IF results[k].ok
    THEN SettledLoop(results, k + 1, Append(findings, results[k].value), errors)
    ELSE SettledLoop(results, k + 1, findings, errors \o results[k].err)

conductResearchParallel(questions, world) ==
  IF questions = <<>> THEN Err(NoResearch, <<"No research questions provided">>)
  ELSE LET results == [k \in 1..Len(questions) |-> researchQuestion(questions[k], world[k])]
       IN ResearchOutcome(questions, SettledLoop(results, 1, <<>>, <<>>))

SynthTexts == { Bare(SynthJson("object", 8500)), Fenced(SynthJson("object", 850000)) }
GoodScript == <<GenOk(Bare(SynthJson("object", 8500))),
                GenErr(Bare(SynthJson("object", 8500))),
                GenErr(Bare(SynthJson("object", 8500)))>>
BadScript == <<GenErr(Bare(SynthJson("object", 8500))),
               GenErr(Bare(SynthJson("object", 8500))),
               GenErr(Bare(SynthJson("object", 8500)))>>

Found(n) == [search |-> "ok", sources |-> n, script |-> GoodScript]
\* what search and generation do for the k-th question, in each world
WorldNames == {"allZero", "allOk", "searchDown", "synthesisDown"}
World(name) ==
  [k \in 1..MaxQuestions |->
     CASE name = "allZero" -> Found(0)
       [] name = "allOk" -> Found(2)
       [] name = "searchDown" -> [Found(0) EXCEPT !.search = "err"]
       [] OTHER -> [Found(2) EXCEPT !.script = BadScript]]

(***************************************************************************)
(* Critic (ai-agents/critic.ts).                                           *)
(***************************************************************************)
CritiqueJson(t, confidence, gaps, suggestions) ==
  [t |-> t, confidence |-> confidence, gaps |-> gaps, biases |-> <<>>,
   contradictions |-> <<>>, suggestions |-> suggestions,
   overallAssessment |-> IF t = "object" THEN "assessment" ELSE "none"]

DefaultCritique ==
  [CritiqueJson("object", Unit \div 2, <<"Unable to generate critique">>, <<>>)
     EXCEPT !.overallAssessment = "Critique generation failed"]
DegradedCritique ==
  [CritiqueJson("object", 3000, <<"Unable to complete critique due to technical error">>,
                <<"Retry the critique process">>)
     EXCEPT !.overallAssessment = "Critique failed due to technical error"]

\* what the generation capability gave the agent: "failed" when every
\* attempt failed, "unparsable" when JSON.parse rejects the text, else the
\* kind of the JSON value ("null", "object")
GenKind(gen) ==
  IF ~gen.ok THEN "failed"
  ELSE IF gen.text.body.t = "garbage" \/ (gen.text.fence = "none" /\ gen.text.prose)
    THEN "unparsable"
  ELSE gen.text.body.t

critiqueResearchNoCatch(gen) ==
  LET critique == parseJSONResponse(gen.text, DefaultCritique) IN
  [critique EXCEPT !.confidence = IF @ > Unit THEN @ \div 100 ELSE @]
critiqueResearch(gen) ==
  IF ~gen.ok THEN DegradedCritique
  ELSE LET critique == parseJSONResponse(gen.text, DefaultCritique) IN
    IF critique.t = "null" THEN DegradedCritique
    ELSE [critique EXCEPT !.confidence = IF @ > Unit THEN @ \div 100 ELSE @]

CriticTexts ==
  { Chatty(CritiqueJson("garbage", 0, <<>>, <<>>)),
    Bare(CritiqueJson("null", 0, <<>>, <<>>)),
    Fenced(CritiqueJson("object", 700000, <<"gap">>, <<"suggestion">>)) }

(***************************************************************************)
(* Writer (ai-agents/writer.ts) and Reviewer (ai-agents/reviewer.ts).  A   *)
(* report text is its length, its number of words and whether it is all    *)
(* whitespace.                                                             *)
(***************************************************************************)
Doc(name, length, words) == [name |-> name, length |-> length, words |-> words]
NoDoc == Doc("none", 0, 0)

\* result.text.trim() of the writer's text: body.report is the trimmed text
writeReport(gen) ==
  IF ~gen.ok THEN Err(NoDoc, Wrap("Failed to write report", gen.err))
  ELSE LET report == gen.text.body.report IN
    IF report.length < MinReportLength
      THEN Err(NoDoc, <<"Failed to write report", "Generated report is too short or empty">>)
      ELSE Ok(report)

WriterTexts ==
  { Bare([t |-> "text", report |-> Doc("draft", 499, 80)]),
    Bare([t |-> "text", report |-> Doc("draft", 1200, 200)]) }

ReviewJson(t, report, quality) == [t |-> t, finalReport |-> report, overallQuality |-> quality]

\* finalReport "none" is a JSON object without finalReport (or an empty one)
parseReviewResponse(text, originalReport) ==
  LET parsed == parseJSONResponse(text, ReviewJson("garbage", NoDoc, "none")) IN
  IF parsed.t # "object"
    THEN [finalReport |-> originalReport, overallQuality |-> "needs-work",
          readabilityScore |-> 50]
    ELSE [finalReport |-> IF parsed.finalReport.name = "none" THEN originalReport
                          ELSE parsed.finalReport,
          overallQuality |-> IF parsed.overallQuality = "none" THEN "good"
                             ELSE parsed.overallQuality,
          readabilityScore |-> 75]

NoReview == [finalReport |-> NoDoc, overallQuality |-> "none", readabilityScore |-> 0]

\* a report of words = 0 is whitespace only: trim().length = 0
reviewReport(report, gen) ==
  IF ~gen.ok THEN Err(NoReview, Wrap("Failed to review report", gen.err))
  ELSE LET reviewResult == parseReviewResponse(gen.text, report) IN
    IF reviewResult.finalReport.words = 0
      THEN Err(NoReview, <<"Failed to review report", "No final report generated">>)
      ELSE Ok(reviewResult)

ReviewerTexts ==
  { Chatty(ReviewJson("garbage", NoDoc, "none")),
    Fenced(ReviewJson("object", Doc("reviewed", 1300, 210), "excellent")),
    Bare(ReviewJson("object", Doc("short", 400, 60), "good")),
    Bare(ReviewJson("object", Doc("blank", 3, 0), "fair")) }

\* inngest.send of research/report.requested: the run of the function is
\* created; a rejected send ends the handler in its catch block.
NewRun ==
  [pc |-> "between", step |-> 1, attempt |-> 0, execs |-> 0, cancelled |-> FALSE,
   researchPlan |-> FallbackPlan, findings |-> NoResearch, critique |-> DegradedCritique,
   draftReport |-> NoDoc, error |-> <<>>, onlyZero |-> TRUE, catchAttempt |-> 0]

\* data.reportId of the research/report.requested event
EventReportIdFirst(rq) == 1
EventReportId(rq) == rq.reportId

StartSend(r) ==
  /\ req[r].pc = "created"
  /\ \E sent \in BOOLEAN :
       IF sent
         THEN /\ run' = run @@ (EventReportId(req[r]) :> NewRun)
              /\ hist' = [hist EXCEPT ![EventReportId(req[r])].triggers = @ + 1]
              /\ req' = [req EXCEPT ![r] = Finish(@, "ok")]
         ELSE /\ run' = run
              /\ hist' = hist
              /\ req' = [req EXCEPT ![r] = Finish(@, "INTERNAL_ERROR")]
  /\ UNCHANGED <<del, windows, call, credits, initCredits, reports, nextId, rateLimitStore, now,
                 cancelEvents, canc>>

(***************************************************************************)
(* The workflow engine: generateResearchReport.  A run is between steps    *)
(* ("between"), inside a step body before its first statement ("invoked"), *)
(* inside a step body after the status write, the agent call in flight     *)
(* ("agent"), about to re-enter the handler with the step's error          *)
(* ("catchPending"), inside the catch block ("catch"), or finished         *)
(* ("completed", "failed", "cancelled").                                   *)
(***************************************************************************)
StepStatusSwapped == <<"PLANNING", "CRITIQUING", "RESEARCHING", "WRITING", "FORMATTING">>
StepStatus == <<"PLANNING", "RESEARCHING", "CRITIQUING", "WRITING", "FORMATTING">>
LastStep == Len(StepStatus)

Exists(i) == i \in DOMAIN reports
NotFound == <<"Record to update not found">>

\* retries: 2 -- a failed step is run again while attempt < retries
MayRetryOnceMore(attempt) == attempt <= Retries
MayRetry(attempt) == attempt < Retries

StepFailed(rn, err) ==
  IF MayRetry(rn.attempt)
    THEN [rn EXCEPT !.attempt = @ + 1,
                    !.pc = IF rn.cancelled THEN "cancelled" ELSE "between"]
    ELSE [rn EXCEPT !.error = err,
                    !.pc = IF rn.cancelled THEN "cancelled" ELSE "catchPending"]

StepDone(rn) ==
  [rn EXCEPT !.step = @ + 1, !.attempt = 0, !.execs = 0,
             !.pc = IF rn.cancelled THEN "cancelled"
                    ELSE IF rn.step = LastStep THEN "completed" ELSE "between"]

EngineFrame == UNCHANGED <<del, windows, call, credits, initCredits, nextId, req, rateLimitStore, now,
                           cancelEvents, canc, hist>>

\* Inngest invokes the handler to run the next step (or the next attempt)
EngineStartStep(i) ==
  /\ i \in DOMAIN run
  /\ run[i].pc = "between"
  /\ run' = [run EXCEPT ![i] = [@ EXCEPT !.pc = "invoked", !.execs = @ + 1]]
  /\ hist' = IF hist[i].deleted THEN [hist EXCEPT ![i].execsAfterDelete = @ + 1] ELSE hist
  /\ UNCHANGED <<reports, del, windows, call, credits, initCredits, nextId, req,
                 rateLimitStore, now, cancelEvents, canc>>

\* the record written by update({ status })
StatusWriteReset(report, status) ==
  [NewReport(report.userId, report.topic) EXCEPT !.status = status]
StatusWrite(report, status) == [report EXCEPT !.status = status]

\* first statement of every step body: db.report.update({ status })
StepWriteStatus(i) ==
  /\ i \in DOMAIN run
  /\ run[i].pc = "invoked"
  /\ IF Exists(i)
       THEN /\ reports' = [reports EXCEPT ![i] = StatusWrite(@, StepStatus[run[i].step])]
            /\ run' = [run EXCEPT ![i].pc = "agent"]
       ELSE /\ reports' = reports
            /\ run' = [run EXCEPT ![i] = StepFailed(@, NotFound)]
  /\ EngineFrame

\* plan-research: planResearch, then update({ researchPlan })
PlanStep(i) ==
  /\ i \in DOMAIN run
  /\ run[i].pc = "agent" /\ run[i].step = 1
  /\ \E script \in Scripts(PlannerTexts) :
       LET res == planResearch(generateWithRetry(script, GenRetries)) IN
       IF res.ok /\ Exists(i)
         THEN /\ reports' = [reports EXCEPT ![i].researchPlan = Some(res.value)]
              /\ run' = [run EXCEPT ![i] = StepDone([@ EXCEPT !.researchPlan = res.value])]
         ELSE /\ reports' = reports
              /\ run' = [run EXCEPT ![i] =
                          StepFailed(@, IF res.ok THEN NotFound ELSE res.err)]
  /\ EngineFrame

\* conduct-research: conductResearch (sequential), then update({ findings })
ResearchStep(i) ==
  /\ i \in DOMAIN run
  /\ run[i].pc = "agent" /\ run[i].step = 2
  /\ \E w \in WorldNames :
       LET res == conductResearch(run[i].researchPlan.questions, World(w))
           rn == [run[i] EXCEPT !.onlyZero = @ /\ w = "allZero"]
       IN IF res.ok /\ Exists(i)
            THEN /\ reports' = [reports EXCEPT ![i].findings = Some(res.value)]
                 /\ run' = [run EXCEPT ![i] = StepDone([rn EXCEPT !.findings = res.value])]
            ELSE /\ reports' = reports
                 /\ run' = [run EXCEPT ![i] =
                             StepFailed(rn, IF res.ok THEN NotFound ELSE res.err)]
  /\ EngineFrame

\* critique-research: critiqueResearch, then update({ critique })
CritiqueStep(i) ==
  /\ i \in DOMAIN run
  /\ run[i].pc = "agent" /\ run[i].step = 3
  /\ \E script \in Scripts(CriticTexts) :
       LET gen == generateWithRetry(script, GenRetries)
           critiqueResult == critiqueResearch(gen)
       IN /\ hist' = [hist EXCEPT ![i].critiqueGen = GenKind(gen)]
          /\ IF Exists(i)
               THEN /\ reports' = [reports EXCEPT ![i].critique = Some(critiqueResult)]
                    /\ run' = [run EXCEPT ![i] =
                                StepDone([@ EXCEPT !.critique = critiqueResult])]
               ELSE /\ reports' = reports
                    /\ run' = [run EXCEPT ![i] = StepFailed(@, NotFound)]
  /\ UNCHANGED <<del, windows, call, credits, initCredits, nextId, req, rateLimitStore, now,
                 cancelEvents, canc>>

\* write-report: writeReport; the draft is returned, not stored
WriteStep(i) ==
  /\ i \in DOMAIN run
  /\ run[i].pc = "agent" /\ run[i].step = 4
  /\ \E script \in Scripts(WriterTexts) :
       LET res == writeReport(generateWithRetry(script, GenRetries)) IN
       run' = [run EXCEPT ![i] =
                 IF res.ok THEN StepDone([@ EXCEPT !.draftReport = res.value])
                 ELSE StepFailed(@, res.err)]
  /\ UNCHANGED reports
  /\ EngineFrame

\* the record written by the final update of review-report
FinalWriteNoStatus(report, reviewed, sourceCount, t) ==
  [report EXCEPT !.finalReport = Some(reviewed.finalReport),
                 !.completedAt = Some(t),
                 !.reportMetadata = Some([reviewSummary |-> reviewed.overallQuality,
                                          wordCount |-> reviewed.finalReport.words,
                                          sourceCount |-> sourceCount])]
FinalWriteNoMetadata(report, reviewed, sourceCount, t) ==
  [report EXCEPT !.status = "COMPLETED",
                 !.finalReport = Some(reviewed.finalReport),
                 !.completedAt = Some(t)]
FinalWrite(report, reviewed, sourceCount, t) ==
  [report EXCEPT !.status = "COMPLETED",
                 !.finalReport = Some(reviewed.finalReport),
                 !.completedAt = Some(t),
                 !.reportMetadata = Some([reviewSummary |-> reviewed.overallQuality,
                                          wordCount |-> reviewed.finalReport.words,
                                          sourceCount |-> sourceCount])]

\* review-report: reviewReport, then the final update
ReviewStep(i) ==
  /\ i \in DOMAIN run
  /\ run[i].pc = "agent" /\ run[i].step = 5
  /\ \E script \in Scripts(ReviewerTexts) :
       LET res == reviewReport(run[i].draftReport, generateWithRetry(script, GenRetries))
           reviewed == res.value
           gen == generateWithRetry(script, GenRetries)
       IN /\ hist' = [hist EXCEPT
                        ![i].reviewGen = GenKind(gen),
                        ![i].reviewedLength = IF GenKind(gen) = "object"
                                                THEN gen.text.body.finalReport.length
                                                ELSE 0]
          /\ IF res.ok /\ Exists(i)
               THEN /\ reports' = [reports EXCEPT ![i] =
                         FinalWrite(@, reviewed, run[i].findings.summary.totalSources, now)]
                    /\ run' = [run EXCEPT ![i] = StepDone(@)]
               ELSE /\ reports' = reports
                    /\ run' = [run EXCEPT ![i] =
                                StepFailed(@, IF res.ok THEN NotFound ELSE res.err)]
  /\ UNCHANGED <<del, windows, call, credits, initCredits, nextId, req, rateLimitStore, now,
                 cancelEvents, canc>>

\* Inngest re-enters the handler after the step's last attempt failed:
\* step.run throws into the try block
EngineEnterCatch(i) ==
  /\ i \in DOMAIN run
  /\ run[i].pc = "catchPending"
  /\ run' = [run EXCEPT ![i].pc = "catch"]
  /\ UNCHANGED reports
  /\ EngineFrame

\* the record written by update({ status: 'FAILED', errorMessage })
CatchWriteKeepStatus(report, error) == [report EXCEPT !.errorMessage = Some(error)]
CatchWriteClearing(report, error) ==
  [NewReport(report.userId, report.topic) EXCEPT !.status = "FAILED",
                                                 !.errorMessage = Some(error)]
CatchWrite(report, error) ==
  [report EXCEPT !.status = "FAILED", !.errorMessage = Some(error)]

\* catch block: update({ status: 'FAILED', errorMessage }), throw error.
\* When the update itself rejects (no record), its error leaves the handler
\* instead of the step's error, and Inngest runs the handler again while
\* retries are left: the failed step throws again and the catch block runs
\* again.
EngineCatch(i) ==
  /\ i \in DOMAIN run
  /\ run[i].pc = "catch"
  /\ IF Exists(i)
       THEN /\ reports' = [reports EXCEPT ![i] = CatchWrite(@, run[i].error)]
            /\ run' = [run EXCEPT ![i].pc = "failed"]
       ELSE /\ reports' = reports
            /\ run' = [run EXCEPT ![i] =
                        IF MayRetry(@.catchAttempt)
                          THEN [@ EXCEPT !.catchAttempt = @ + 1, !.pc = "catchPending"]
                          ELSE [@ EXCEPT !.pc = "failed"]]
  /\ EngineFrame

\* cancelOn: Inngest processes a research/report.cancelled event whose
\* data.reportId matches.  A run between steps stops; a step body in
\* flight runs to its end and nothing is started after it.  An event for
\* which no run is active is dropped.
InngestCancel(i) ==
  /\ cancelEvents[i] > 0
  /\ cancelEvents' = [cancelEvents EXCEPT ![i] = @ - 1]
  /\ run' = IF i \notin DOMAIN run THEN run
            ELSE IF run[i].pc \in {"between", "catchPending"}
              THEN [run EXCEPT ![i].pc = "cancelled"]
            ELSE IF run[i].pc \in {"invoked", "agent"}
              THEN [run EXCEPT ![i].cancelled = TRUE]
            ELSE run
  /\ UNCHANGED <<del, windows, call, credits, initCredits, reports, nextId, req, rateLimitStore, now, canc, hist>>

(***************************************************************************)
(* Cancel run: POST /api/reports/[reportId]/cancel.                        *)
(***************************************************************************)
CancelMessage == <<"Cancelled by user">>

CancelFinish(cn, response) ==
  [cn EXCEPT !.pc = "done", !.response = response, !.atCritiquing = FALSE]

\* the test of "still in progress" on the report the handler has read
CanCancelNotCancelled(status) == status \notin {"COMPLETED", "FAILED"}
CanCancel(status) == status \notin {"COMPLETED", "FAILED", "CANCELLED"}

\* getUser, verifyReportAccess, findUnique and the status check.  The
\* invocations are numbered in their order of arrival.  A missing report and
\* a caller who is not the owner make verifyReportAccess throw: the catch
\* block answers with handleError.
CancelRead(c) ==
  /\ canc[c].pc = "idle"
  /\ IF c = 1 THEN TRUE ELSE canc[c - 1].pc # "idle"
  /\ \E u \in Users, i \in ReportIds :
       /\ canc' = [canc EXCEPT ![c] =
            IF ~Exists(i) THEN CancelFinish([@ EXCEPT !.reportId = i], "ERROR")
            ELSE IF reports[i].userId # u
              THEN CancelFinish([@ EXCEPT !.reportId = i], "ERROR")
            ELSE IF ~CanCancel(reports[i].status)
              THEN CancelFinish([@ EXCEPT !.reportId = i], "CANNOT_CANCEL")
            ELSE [@ EXCEPT !.pc = "checked", !.reportId = i,
                            !.atCritiquing = reports[i].status = "CRITIQUING"]]
       /\ hist' = IF Exists(i) /\ reports[i].userId = u /\ CanCancel(reports[i].status)
                    THEN [hist EXCEPT ![i].cancelCalled = TRUE]
                    ELSE hist
  /\ UNCHANGED <<del, windows, call, credits, initCredits, reports, nextId, req, rateLimitStore, now, run,
                 cancelEvents>>

\* inngest.send of research/report.cancelled
CancelSend(c) ==
  /\ canc[c].pc = "checked"
  /\ \E sent \in BOOLEAN :
       IF sent
         THEN /\ cancelEvents' = [cancelEvents EXCEPT ![canc[c].reportId] = @ + 1]
              /\ canc' = [canc EXCEPT ![c] = [@ EXCEPT !.pc = "sent", !.sent = TRUE]]
         ELSE /\ cancelEvents' = cancelEvents
              /\ canc' = [canc EXCEPT ![c] = CancelFinish(@, "ERROR")]
  /\ UNCHANGED <<del, windows, call, credits, initCredits, reports, nextId, req, rateLimitStore, now, run, hist>>

\* the record written by update({ status: 'CANCELLED', errorMessage })
CancelWriteMessageOnly(report) == [report EXCEPT !.errorMessage = Some(CancelMessage)]
CancelWrite(report) ==
  [report EXCEPT !.status = "CANCELLED", !.errorMessage = Some(CancelMessage)]

\* db.report.update, then the success response
CancelUpdate(c) ==
  /\ canc[c].pc = "sent"
  /\ LET i == canc[c].reportId IN
       IF Exists(i)
         THEN /\ reports' = [reports EXCEPT ![i] = CancelWrite(@)]
              /\ canc' = [canc EXCEPT ![c] = CancelFinish([@ EXCEPT !.wrote = TRUE], "ok")]
              /\ hist' = [hist EXCEPT ![i].cancelWritten = TRUE,
                                      ![i].cancelAtCritiquing = @ \/ canc[c].atCritiquing]
         ELSE /\ reports' = reports
              /\ canc' = [canc EXCEPT ![c] = CancelFinish(@, "ERROR")]
              /\ hist' = hist
  /\ UNCHANGED <<del, windows, call, credits, initCredits, nextId, req, rateLimitStore, now, run, cancelEvents>>

(***************************************************************************)
(* Delete run: DELETE /api/reports/[reportId].                             *)
(***************************************************************************)
\* the table after db.report.delete({ where: { id } })
DeleteRowSoft(table, i) == [table EXCEPT ![i].status = "CANCELLED"]
DeleteRow(table, i) == [k \in DOMAIN table \ {i} |-> table[k]]

\* the run of the report has started and has not ended
InFlight(i) == i \in DOMAIN run /\ run[i].pc \notin {"completed", "failed", "cancelled"}

DeleteFrame == UNCHANGED <<windows, call, credits, initCredits, nextId, req, rateLimitStore,
                           now, run, cancelEvents, canc>>

\* getUser, findUnique and the ownership check
DeleteRead(d) ==
  /\ del[d].pc = "idle"
  /\ \E u \in Users, i \in ReportIds :
       del' = [del EXCEPT ![d] =
                 IF ~Exists(i)
                   THEN [pc |-> "done", reportId |-> i, response |-> "RESOURCE_NOT_FOUND"]
                 ELSE IF reports[i].userId # u
                   THEN [pc |-> "done", reportId |-> i, response |-> "UNAUTHORIZED"]
                 ELSE [pc |-> "found", reportId |-> i, response |-> "none"]]
  /\ UNCHANGED <<reports, hist>>
  /\ DeleteFrame

\* db.report.delete, then the success response; the delete of a record that
\* is gone rejects and the catch block answers
DeleteRecord(d) ==
  /\ del[d].pc = "found"
  /\ LET i == del[d].reportId IN
       IF Exists(i)
         THEN /\ reports' = DeleteRow(reports, i)
              /\ hist' = [hist EXCEPT ![i].deleted = TRUE,
                                      ![i].deletedInFlight = InFlight(i)]
              /\ del' = [del EXCEPT ![d] = [@ EXCEPT !.pc = "done", !.response = "ok"]]
         ELSE /\ UNCHANGED <<reports, hist>>
              /\ del' = [del EXCEPT ![d] =
                          [@ EXCEPT !.pc = "done", !.response = "INTERNAL_ERROR"]]
  /\ DeleteFrame

(***************************************************************************)
(* The agent functions called on their own: conductResearch on a list of   *)
(* questions, synthesizeFindings and critiqueResearch on one answer of the *)
(* model.                                                                  *)
(***************************************************************************)
MaxResearchQuestions == 4

QuestionPool == <<4, 2, 6, 1, 7, 3, 5>>

NullScript == <<GenOk(Bare(SynthJson("null", 0))),
                GenOk(Bare(SynthJson("null", 0))),
                GenOk(Bare(SynthJson("null", 0)))>>
LateScript == <<GenErr(Fenced(SynthJson("object", 850000))),
                GenErr(Fenced(SynthJson("object", 850000))),
                GenOk(Fenced(SynthJson("object", 850000)))>>

\* what search and generation may do for one question
QuestionOutcomes ==
  { Found(2), Found(0), [Found(0) EXCEPT !.search = "err"],
    [Found(2) EXCEPT !.script = BadScript],
    [Found(1) EXCEPT !.script = NullScript],
    [Found(3) EXCEPT !.script = LateScript] }

\* confidence values of the model's JSON, in units of 1/Unit
ConfidenceInputs ==
  {0 - 5000, 0, 3000, Unit, 20000, 850000, 100 * Unit, 1500000, 200 * Unit + 100}

\* the largest number of questions in an answer of the planner's model
MaxPlanQuestions == 9

\* answers of the planner's model: text that is not JSON, JSON null, and
\* plans of every size, bare or in a ```json block
PlanCallTexts ==
  { Chatty(PlanJson("garbage", 0, 0)), Bare(PlanJson("null", 0, 0)) }
    \cup { Bare(PlanJson("object", nq, na)) : nq \in 0..MaxPlanQuestions, na \in {0, 3, 6} }
    \cup { Fenced(PlanJson("object", nq, na)) : nq \in 0..MaxPlanQuestions, na \in {0, 3, 6} }

AgentFrame == UNCHANGED <<del, windows, credits, initCredits, reports, nextId, req, rateLimitStore, now,
                          run, cancelEvents, canc, hist>>

ConductResearchCall ==
  /\ call = NoCall
  /\ \E n \in 0..MaxResearchQuestions, parallel \in BOOLEAN :
       \E world \in [1..n -> QuestionOutcomes] :
         LET questions == SubSeq(QuestionPool, 1, n) IN
         call' = [fn |-> "conductResearch",
                  input |-> [questions |-> questions, world |-> world,
                             parallel |-> parallel],
                  output |-> IF parallel THEN conductResearchParallel(questions, world)
                             ELSE conductResearch(questions, world)]
  /\ AgentFrame

SynthesizeCall ==
  /\ call = NoCall
  /\ \E c \in ConfidenceInputs, shape \in {"bare", "fenced"} :
       LET body == SynthJson("object", c)
           text == IF shape = "bare" THEN Bare(body) ELSE Fenced(body)
       IN call' = [fn |-> "synthesizeFindings",
                   input |-> [confidence |-> c, shape |-> shape],
                   output |-> synthesizeFindings(
                                generateWithRetry(<<GenOk(text), GenOk(text), GenOk(text)>>,
                                                  GenRetries))]
  /\ AgentFrame

CritiqueCall ==
  /\ call = NoCall
  /\ \E c \in ConfidenceInputs, shape \in {"bare", "fenced"} :
       LET body == CritiqueJson("object", c, <<"gap">>, <<>>)
           text == IF shape = "bare" THEN Bare(body) ELSE Fenced(body)
       IN call' = [fn |-> "critiqueResearch",
                   input |-> [confidence |-> c, shape |-> shape],
                   output |-> critiqueResearch(
                                generateWithRetry(<<GenOk(text), GenOk(text), GenOk(text)>>,
                                                  GenRetries))]
  /\ AgentFrame

\* the largest number of retries generateWithRetry is called with
MaxRetriesArg == 4

Tiers == {"basic", "premium"}

\* the k-th call of generateText: it answers, or throws its own error
AttemptScript(answers) ==
  [k \in 1..MaxRetriesArg |->
     [ok |-> answers[k], text |-> Bare([t |-> "text", attempt |-> k]),
      err |-> <<"api error", k>>]]

\* generateWithRetry(prompt, { tier, retries }): answers[m][k] says whether
\* the k-th call of generateText with model m answers
GenerateCall ==
  /\ call = NoCall
  /\ \E tier \in Tiers, retries \in 0..MaxRetriesArg,
        answers \in [{getModel(t) : t \in Tiers} -> [1..MaxRetriesArg -> BOOLEAN]] :
       call' = [fn |-> "generateWithRetry",
                input |-> [tier |-> tier, retries |-> retries, answers |-> answers],
                output |-> generateWithRetry(AttemptScript(answers[getModel(tier)]),
                                             retries)]
  /\ AgentFrame

\* the longest text, in tokens
MaxTextLen == 5

ParseFallback == [t |-> "fallback"]

ParseCall ==
  /\ call = NoCall
  /\ \E text \in UNION { [1..len -> {"F", "E", "V", "N", "P"}] : len \in 0..MaxTextLen } :
       call' = [fn |-> "parseJSONResponse",
                input |-> [text |-> text, fallback |-> ParseFallback],
                output |-> parseJSONResponseOnText(text, ParseFallback)]
  /\ AgentFrame

PlanCall ==
  /\ call = NoCall
  /\ \E impl \in {"ai-agents/research-planner", "inngest/agents/planner"},
        text \in PlanCallTexts, script \in Scripts({Bare(PlanJson("object", 6, 3))}) :
       LET gen == generateWithRetry([k \in 1..GenRetries |->
                                       [script[k] EXCEPT !.text = text]], GenRetries)
       IN call' = [fn |-> "planResearch",
                   input |-> [impl |-> impl, kind |-> GenKind(gen), text |-> text],
                   output |-> IF impl = "ai-agents/research-planner"
                                THEN planResearch(gen)
                                ELSE inngestPlanResearch(gen)]
  /\ AgentFrame

(***************************************************************************)
(* The rate limiter on its own: calls of checkRateLimit on three keys, the *)
(* clock, and the periodic cleanup of the store.                           *)
(***************************************************************************)
MaxTime == 6

RateKeys == {RateKey("u1", "a"), RateKey("u1", "b"), RateKey("u2", "a")}

\* the configuration of the limiter of an endpoint
RateConfig(key) ==
  IF key[2] = "a" THEN [windowMs |-> 2, maxRequests |-> 2]
  ELSE IF key[2] = "b" THEN [windowMs |-> 1, maxRequests |-> 1]
  ELSE [windowMs |-> GenerateWindowMs, maxRequests |-> GenerateMaxRequests]

RateFrame == UNCHANGED <<del, credits, initCredits, reports, nextId, req, run, cancelEvents,
                         canc, hist, call>>

RateCheck(key) ==
  /\ LET cfg == RateConfig(key)
         rl == checkRateLimit(rateLimitStore, key, now, cfg.windowMs, cfg.maxRequests)
     IN /\ rateLimitStore' = rl.store
        /\ windows' = RecordCall(windows, key, now, cfg.windowMs, rl.allowed)
  /\ now' = now
  /\ RateFrame

\* Date.now() moves on
Tick ==
  /\ now < MaxTime
  /\ now' = now + 1
  /\ UNCHANGED <<rateLimitStore, windows>>
  /\ RateFrame

\* setInterval: the entries whose resetTime has passed are deleted
CleanupExpired ==
  /\ rateLimitStore' = [k \in {j \in DOMAIN rateLimitStore :
                                 ~(rateLimitStore[j].resetTime < now)} |-> rateLimitStore[k]]
  /\ UNCHANGED <<now, windows>>
  /\ RateFrame

(***************************************************************************)
(* Specifications.                                                         *)
(***************************************************************************)
StartRun(r) == StartValidate(r) \/ StartTransaction(r) \/ StartSend(r)

Engine(i) ==
  \/ EngineStartStep(i)
  \/ StepWriteStatus(i)
  \/ PlanStep(i)
  \/ ResearchStep(i)
  \/ CritiqueStep(i)
  \/ WriteStep(i)
  \/ ReviewStep(i)
  \/ EngineEnterCatch(i)
  \/ EngineCatch(i)
  \/ InngestCancel(i)

Cancel(c) == CancelRead(c) \/ CancelSend(c) \/ CancelUpdate(c)

\* the workflow function without cancellation events
EngineRun(i) ==
  \/ EngineStartStep(i)
  \/ StepWriteStatus(i)
  \/ PlanStep(i)
  \/ ResearchStep(i)
  \/ CritiqueStep(i)
  \/ WriteStep(i)
  \/ ReviewStep(i)
  \/ EngineEnterCatch(i)
  \/ EngineCatch(i)

Next ==
  \/ \E r \in ReqIds : StartRun(r)
  \/ \E i \in ReportIds : Engine(i)
  \/ \E c \in CancelIds : Cancel(c)

Spec == Init /\ [][Next]_vars

\* Every persistence call and every capability call returns, so a handler
\* that has started goes on to its end; Inngest goes on executing a run
\* that has work to do and goes on processing the events it has received.
Fairness ==
  /\ \A r \in ReqIds : WF_vars(StartTransaction(r) \/ StartSend(r))
  /\ \A i \in ReportIds : WF_vars(EngineRun(i)) /\ WF_vars(InngestCancel(i))
  /\ \A c \in CancelIds : WF_vars(CancelSend(c) \/ CancelUpdate(c))

SpecLive == Init /\ [][Next]_vars /\ Fairness

NextStart == \E r \in ReqIds : StartRun(r)

SpecStart == InitStart /\ [][NextStart]_vars

\* the agent functions alone, on every input of the sets above
NextAgents == ConductResearchCall \/ SynthesizeCall \/ CritiqueCall \/ PlanCall
                \/ GenerateCall \/ ParseCall

SpecAgents == Init /\ [][NextAgents]_vars

Delete(d) == DeleteRead(d) \/ DeleteRecord(d)

\* Start-run, the workflow function and Delete run
NextDelete ==
  \/ \E r \in ReqIds : StartRun(r)
  \/ \E i \in ReportIds : EngineRun(i)
  \/ \E d \in 1..MaxDeletes : Delete(d)

SpecDelete == Init /\ [][NextDelete]_vars

NextRate == (\E key \in RateKeys : RateCheck(key)) \/ Tick \/ CleanupExpired

SpecRate == Init /\ [][NextRate]_vars

(***************************************************************************)
(* Properties.                                                             *)
(***************************************************************************)
StatusOf(i) == reports[i].status

\* a == b, or a is in progress and b is terminal or later in StatusOrder
Forward(a, b) ==
  \/ a = b
  \/ /\ ~IsTerminal(a)
     /\ IF IsTerminal(b) THEN TRUE ELSE Rank(b) > Rank(a)

\* C1: the values taken by status form a subsequence of PENDING, PLANNING,
\* RESEARCHING, CRITIQUING, WRITING, FORMATTING, COMPLETED, possibly cut short
\* by FAILED or CANCELLED: every write leaves status or moves it forward.
C1_StatusMonotonic ==
  [][\A i \in DOMAIN reports :
       i \in DOMAIN reports' => Forward(reports[i].status, reports'[i].status)]_vars

\* C2: a terminal status (COMPLETED, FAILED, CANCELLED) is never changed by
\* a later write.
C2_TerminalAbsorbing ==
  [][\A i \in DOMAIN reports :
       (i \in DOMAIN reports' /\ reports[i].status \in TerminalStatuses)
         => reports'[i].status = reports[i].status]_vars

\* C3: once a cancel request that found the run CRITIQUING has written
\* CANCELLED, the status is CANCELLED in every later state.
C3_CancelAtCritiquingSticks ==
  \A i \in DOMAIN reports :
    hist[i].cancelAtCritiquing => reports[i].status = "CANCELLED"

\* C4: after the cancel handler has written CANCELLED, no field of the
\* record is written again by the engine.
C4_NoWriteAfterCancel ==
  [][\A i \in DOMAIN reports :
       (i \in DOMAIN reports' /\ hist[i].cancelWritten) => reports'[i] = reports[i]]_vars

ReportsOf(u) == {i \in DOMAIN reports : reports[i].userId = u}

\* C5: debit and creation are one atomic unit: credits never drop below 0,
\* a user who held c credits has at most c reports, and every report
\* corresponds to exactly one decrement.
C5_AtomicDebit ==
  \A u \in Users :
    /\ credits[u] >= 0
    /\ Cardinality(ReportsOf(u)) <= initCredits[u]
    /\ initCredits[u] - credits[u] = Cardinality(ReportsOf(u))

\* two requests of one user have both read the balance 1; one has created
\* the report, the other one was refused
C5_Witness ==
  \E r1, r2 \in ReqIds :
    /\ r1 # r2 /\ req[r1].user = req[r2].user
    /\ initCredits[req[r1].user] = 1
    /\ req[r1].snapshot = 1 /\ req[r2].snapshot = 1
    /\ req[r1].reportId # 0
    /\ req[r2].pc = "done" /\ req[r2].response = "INSUFFICIENT_CREDITS"

\* C6: a finished Start-run call either succeeded (its report exists in
\* PENDING, one credit is debited, the run is triggered) or returned an
\* error and created nothing and debited nothing; a caller with 0 credits
\* gets the insufficient-credits error.
C6_StartRunAllOrNothing ==
  /\ \A r \in ReqIds :
       req[r].pc = "done" =>
         \/ /\ req[r].response = "ok"
            /\ req[r].reportId \in DOMAIN reports
            /\ reports[req[r].reportId].status = "PENDING"
            /\ req[r].reportId \in DOMAIN run
         \/ /\ req[r].response # "ok"
            /\ req[r].reportId = 0
            /\ (initCredits[req[r].user] = 0
                  /\ req[r].response \notin {"INVALID_TOPIC", "RATE_LIMIT_EXCEEDED"})
                 => req[r].response = "INSUFFICIENT_CREDITS"
  /\ \A u \in Users :
       initCredits[u] - credits[u] =
         Cardinality({r \in ReqIds : req[r].user = u /\ req[r].reportId # 0})

FailingPcs == {"catchPending", "catch", "failed"}

\* C7: a step body is executed at most Retries + 1 times; the engine's
\* failure path is entered only after the last execution has failed; the
\* catch block writes FAILED with the captured error message; after that
\* no step body runs and no in-progress status is written.
C7_BoundedRetriesThenFailed ==
  [][\A i \in DOMAIN run' :
       /\ run'[i].execs <= Retries + 1
       /\ run'[i].pc \in FailingPcs => run'[i].execs = Retries + 1
       /\ (i \in DOMAIN run /\ run[i].pc = "catch" /\ run'[i].pc = "failed" /\ Exists(i))
            => /\ reports'[i].status = "FAILED"
               /\ reports'[i].errorMessage = Some(run[i].error)
       /\ (i \in DOMAIN run /\ run[i].pc \in FailingPcs)
            => /\ run'[i].step = run[i].step
               /\ run'[i].execs = run[i].execs
               /\ run'[i].pc \in FailingPcs \cup {"cancelled"}
               /\ (Exists(i) /\ reports'[i].status # reports[i].status)
                    => reports'[i].status \in {"FAILED", "CANCELLED"}]_vars

C7_Witness ==
  \E i \in DOMAIN run :
    /\ run[i].pc = "failed" /\ run[i].execs = Retries + 1 /\ run[i].step = 4
    /\ reports[i].status = "FAILED"
    /\ reports[i].errorMessage = Some(run[i].error)

Contains(msg, part) == \E k \in 1..Len(msg) : msg[k] = part

\* C8: while every search of every research attempt has returned zero
\* sources, no findings are stored and none of CRITIQUING, WRITING,
\* FORMATTING, COMPLETED is written; the research step fails Retries + 1
\* times with the research-failure error, and, no cancel request
\* interfering, the run ends FAILED with that error as errorMessage.
C8_NoSourcesFails ==
  \A i \in DOMAIN run :
    (run[i].onlyZero /\ Exists(i)) =>
      /\ run[i].step <= 2
      /\ reports[i].findings = Null
      /\ reports[i].status \notin {"CRITIQUING", "WRITING", "FORMATTING", "COMPLETED"}
      /\ (run[i].step = 2 /\ run[i].pc \in FailingPcs)
           => /\ run[i].execs = Retries + 1
              /\ Head(run[i].error) = "Research failed"
              /\ Contains(run[i].error, "No sources found for this question")
      /\ (run[i].step = 2 /\ run[i].pc = "failed" /\ ~hist[i].cancelCalled)
           => /\ reports[i].status = "FAILED"
              /\ reports[i].errorMessage = Some(run[i].error)

C8_Witness ==
  \E i \in DOMAIN run :
    /\ run[i].onlyZero /\ run[i].step = 2 /\ run[i].pc = "failed"
    /\ ~hist[i].cancelCalled
    /\ reports[i].status = "FAILED"
    /\ Head(reports[i].errorMessage[1]) = "Research failed"

OtherFieldsKept(a, b) ==
  /\ a.userId = b.userId /\ a.topic = b.topic
  /\ a.researchPlan = b.researchPlan /\ a.findings = b.findings
  /\ a.critique = b.critique /\ a.finalReport = b.finalReport
  /\ a.reportMetadata = b.reportMetadata /\ a.completedAt = b.completedAt

\* C9: a cancel request on a run that is terminal is rejected and changes
\* neither the record nor the pending cancellation events; a request goes
\* on only for a run it has seen in progress; the write of a cancel request
\* sets status and errorMessage only, so a second request that writes after
\* the first leaves the record as the first left it.
C9_CancelIdempotent ==
  [][\A c \in CancelIds :
       /\ (canc[c].pc = "idle" /\ canc'[c].pc # "idle"
             /\ Exists(canc'[c].reportId)
             /\ reports[canc'[c].reportId].status \in TerminalStatuses)
            => /\ canc'[c].pc = "done"
               /\ canc'[c].response \in {"CANNOT_CANCEL", "ERROR"}
       /\ (canc[c].pc = "idle" /\ canc'[c].pc = "done")
            => /\ reports' = reports
               /\ cancelEvents' = cancelEvents
       /\ canc'[c].response = "CANNOT_CANCEL" => ~canc'[c].sent /\ ~canc'[c].wrote
       /\ (canc[c].pc = "sent" /\ canc'[c].response = "ok")
            => LET i == canc[c].reportId IN
               /\ OtherFieldsKept(reports[i], reports'[i])
               /\ (reports[i].status = "CANCELLED"
                     /\ reports[i].errorMessage = Some(CancelMessage))
                    => reports' = reports]_vars

\* one request has cancelled the run, a later one was rejected
C9_Witness ==
  \E c1, c2 \in CancelIds :
    /\ canc[c1].response = "ok" /\ canc[c1].wrote
    /\ canc[c2].response = "CANNOT_CANCEL"
    /\ canc[c2].reportId = canc[c1].reportId
    /\ reports[canc[c1].reportId].status = "CANCELLED"

C11_ErrorMessageOnlyFailed ==
  \A i \in DOMAIN reports :
    reports[i].errorMessage # Null => reports[i].status = "FAILED"

\* C11, amended: errorMessage is null in a new record and is written only
\* by an update that sets the status to FAILED or to CANCELLED in the same
\* write.
C11_ErrorMessageWrittenWithTerminal ==
  [][/\ \A i \in DOMAIN reports' \ DOMAIN reports : reports'[i].errorMessage = Null
     /\ \A i \in DOMAIN reports \cap DOMAIN reports' :
          reports'[i].errorMessage # reports[i].errorMessage
            => /\ reports'[i].errorMessage # Null
               /\ reports'[i].status \in {"FAILED", "CANCELLED"}]_vars

\* the planning step has failed for good and the catch block has stored
\* its error
C11_Witness ==
  \E i \in DOMAIN run :
    /\ run[i].pc = "failed" /\ run[i].step = 1
    /\ reports[i].status = "FAILED"
    /\ reports[i].errorMessage = Some(run[i].error)
    /\ Head(run[i].error) = "Failed to plan research"

\* C12: completedAt is null while the status is in progress, and a write
\* that sets completedAt is the write that moves the status to a terminal
\* value.
C12_CompletedAtOnlyTerminal ==
  [][\A i \in DOMAIN reports' :
       /\ reports'[i].status \in InProgressStatuses => reports'[i].completedAt = Null
       /\ i \notin DOMAIN reports => reports'[i].completedAt = Null
       /\ (i \in DOMAIN reports /\ reports'[i].completedAt # reports[i].completedAt)
            => /\ reports'[i].completedAt # Null
               /\ reports'[i].status \in TerminalStatuses
               /\ reports'[i].status # reports[i].status]_vars

\* the run is complete and its record carries the time of completion
C12_Witness ==
  \E i \in DOMAIN run :
    /\ run[i].pc = "completed"
    /\ reports[i].status = "COMPLETED"
    /\ reports[i].completedAt = Some(now)

\* C13: a COMPLETED record has a non-empty finalReport, reportMetadata and
\* completedAt; finalReport is non-null only once the final update of the
\* review step has happened, which wrote all of them together.
C13_FinalTransitionAtomic ==
  \A i \in DOMAIN reports :
    /\ reports[i].status = "COMPLETED"
         => /\ reports[i].finalReport # Null
            /\ reports[i].finalReport[1].length > 0
            /\ reports[i].finalReport[1].words > 0
            /\ reports[i].reportMetadata # Null
            /\ reports[i].completedAt # Null
    /\ reports[i].finalReport # Null
         => /\ i \in DOMAIN run /\ run[i].step > LastStep
            /\ reports[i].reportMetadata # Null
            /\ reports[i].completedAt # Null

\* the reviewer's answer could not be parsed: the run completed with the
\* writer's draft as finalReport
C13_Witness ==
  \E i \in DOMAIN reports :
    /\ reports[i].status = "COMPLETED"
    /\ reports[i].finalReport = Some(Doc("draft", 1200, 200))
    /\ reports[i].reportMetadata # Null
    /\ reports[i].reportMetadata[1].reviewSummary = "needs-work"

Artifacts(report) ==
  <<report.researchPlan, report.findings, report.critique, report.finalReport,
    report.reportMetadata>>

\* C14: no write sets an artifact (researchPlan, findings, critique,
\* finalReport, reportMetadata) that is non-null back to null.
C14_ArtifactsAppendOnly ==
  [][\A i \in DOMAIN reports \cap DOMAIN reports' :
       \A k \in 1..Len(Artifacts(reports[i])) :
         Artifacts(reports[i])[k] # Null => Artifacts(reports'[i])[k] # Null]_vars

\* a cancelled run keeps the plan and the findings stored before the cancel
C14_Witness ==
  \E i \in DOMAIN reports :
    /\ reports[i].status = "CANCELLED" /\ hist[i].cancelWritten
    /\ reports[i].researchPlan # Null /\ reports[i].findings # Null
    /\ reports[i].critique = Null

\* C15: the steps of a run execute in the order plan, research, critique,
\* write, review, one after the other, and the artifact of a step is in the
\* record before the next one starts: researchPlan from RESEARCHING on,
\* findings from CRITIQUING on, critique from WRITING on (COMPLETED included).
C15_PhasesInOrder ==
  [][/\ \A i \in DOMAIN run \cap DOMAIN run' :
          run'[i].step = run[i].step \/ run'[i].step = run[i].step + 1
     /\ \A i \in DOMAIN run' \ DOMAIN run : run'[i].step = 1
     /\ \A i \in DOMAIN reports' :
          /\ reports'[i].status \in {"RESEARCHING", "CRITIQUING", "WRITING", "FORMATTING"}
               => reports'[i].researchPlan # Null
          /\ reports'[i].status \in {"CRITIQUING", "WRITING", "FORMATTING"}
               => reports'[i].findings # Null
          /\ reports'[i].status \in {"WRITING", "FORMATTING", "COMPLETED"}
               => reports'[i].critique # Null]_vars

\* the review step is running on a record that holds the three artifacts
C15_Witness ==
  \E i \in DOMAIN run :
    /\ run[i].step = LastStep /\ run[i].pc = "agent"
    /\ reports[i].status = "FORMATTING"
    /\ reports[i].researchPlan # Null /\ reports[i].findings # Null
    /\ reports[i].critique # Null

\* C16: the catch block's update changes status and errorMessage only.
C16_FailureKeepsArtifacts ==
  [][\A i \in DOMAIN run :
       (run[i].pc = "catch" /\ run'[i].pc = "failed" /\ Exists(i))
         => /\ i \in DOMAIN reports'
            /\ reports'[i].status = "FAILED"
            /\ OtherFieldsKept(reports[i], reports'[i])]_vars

\* the write step has failed: the record is FAILED and still holds the
\* plan, the findings and the critique
C16_Witness ==
  \E i \in DOMAIN run :
    /\ run[i].pc = "failed"
    /\ reports[i].status = "FAILED"
    /\ Head(reports[i].errorMessage[1]) = "Failed to write report"
    /\ reports[i].researchPlan # Null /\ reports[i].findings # Null
    /\ reports[i].critique # Null

Accepted == {r \in ReqIds : req[r].pc = "done" /\ req[r].response = "ok"}

\* C17: every accepted Start-run request has its own ReportRun, and for
\* every ReportRun id at most one research/report.requested event was sent,
\* so at most one run of the function exists for it, and only for a record
\* that was created.
C17_OneRunPerRequest ==
  /\ \A r \in Accepted :
       /\ req[r].reportId \in DOMAIN reports
       /\ req[r].reportId \in DOMAIN run
       /\ hist[req[r].reportId].triggers = 1
  /\ \A r1, r2 \in Accepted : r1 # r2 => req[r1].reportId # req[r2].reportId
  /\ \A i \in ReportIds : hist[i].triggers <= 1
  /\ \A i \in DOMAIN run : i \in DOMAIN reports /\ hist[i].triggers = 1
  /\ Cardinality(DOMAIN run) = Cardinality(Accepted)

\* two requests were accepted: two records, one run each
C17_Witness ==
  \E r1, r2 \in Accepted :
    /\ r1 # r2
    /\ req[r1].reportId # req[r2].reportId
    /\ hist[req[r1].reportId].triggers = 1 /\ hist[req[r2].reportId].triggers = 1
    /\ {req[r1].reportId, req[r2].reportId} \subseteq DOMAIN run

\* C18: once the record is CANCELLED, the failure of the step that was
\* executing does not make it FAILED and leaves the cancellation message;
\* and a cancel request never replaces a FAILED that is already written.
C18_CancelPrecedence ==
  [][\A i \in DOMAIN reports \cap DOMAIN reports' :
       /\ reports[i].status = "CANCELLED"
            => /\ reports'[i].status # "FAILED"
               /\ reports'[i].errorMessage = reports[i].errorMessage
       /\ reports[i].status = "FAILED" => reports'[i].status # "CANCELLED"]_vars

\* a question succeeds when its search answers with at least one source
\* and the synthesis gets a usable answer within the attempts
Succeeds(o) ==
  /\ o.search = "ok" /\ o.sources > 0
  /\ \E k \in 1..GenRetries : o.script[k].ok /\ o.script[k].text.body.t # "null"

PositionIn(seq, x) == CHOOSE k \in 1..Len(seq) : seq[k] = x

\* C19: conductResearch on a non-empty list fails only if every question
\* failed; a failed question does not stop the others; a successful call
\* returns the findings of exactly the successful questions, in the order
\* of the input, with successfulResearches the number of findings.
C19_ResearchFailsOnlyIfAllFail ==
  (call.fn = "conductResearch" /\ call.input.questions # <<>>) =>
    LET q == call.input.questions
        out == call.output
        okIdx == {k \in 1..Len(q) : Succeeds(call.input.world[k])}
        f == out.value.findings
    IN /\ out.ok <=> okIdx # {}
       /\ out.ok =>
            /\ Len(f) = Cardinality(okIdx)
            /\ \A j \in 1..Len(f) : \E k \in okIdx : f[j].question = q[k]
            /\ \A j1, j2 \in 1..Len(f) :
                 j1 < j2 => PositionIn(q, f[j1].question) < PositionIn(q, f[j2].question)
            /\ out.value.summary.successfulResearches = Len(f)
            /\ out.value.summary.totalQuestions = Len(q)
       /\ ~out.ok => Head(out.err) = "Research failed"

\* the first question found no source, a later one failed in the search,
\* and the call still returned the findings of two other questions
C19_Witness ==
  /\ call.fn = "conductResearch" /\ ~call.input.parallel
  /\ Len(call.input.questions) = 4
  /\ call.input.world[1] = Found(0)
  /\ call.input.world[3].search = "err"
  /\ call.output.ok
  /\ Len(call.output.value.findings) = 2
  /\ call.output.value.findings[1].question = call.input.questions[2]

StoredConfidence ==
  IF call.fn = "synthesizeFindings" THEN call.output.value ELSE call.output.confidence

\* C20: the confidence stored by the Researcher and by the Critic is the
\* model's value, divided by 100 when it is greater than 1, and is always
\* in [0, 1].
C20_ConfidenceInRange ==
  call.fn \in {"synthesizeFindings", "critiqueResearch"} =>
    LET c == call.input.confidence
        d == IF c > Unit THEN c \div 100 ELSE c
    IN /\ StoredConfidence >= 0 /\ StoredConfidence <= Unit
       /\ (d >= 0 /\ d <= Unit) => StoredConfidence = d

IsList(x) == DOMAIN x = 1..Len(x)

\* the critique has the shape of a degraded one: confidence at most one
\* half, a gap entry that names the failure, the four lists defined, and an
\* assessment that says the critique failed
IsDegradedCritique(c) ==
  /\ c.confidence >= 0 /\ c.confidence <= Unit \div 2
  /\ IsList(c.gaps) /\ IsList(c.biases) /\ IsList(c.contradictions) /\ IsList(c.suggestions)
  /\ Len(c.gaps) >= 1
  /\ Head(c.gaps) \in {"Unable to generate critique",
                       "Unable to complete critique due to technical error"}
  /\ c.overallAssessment \in {"Critique generation failed",
                              "Critique failed due to technical error"}

\* C21: when the generation call of the Critic failed on all its attempts,
\* or its text cannot be parsed (or parses to null), critiqueResearch returns
\* a degraded critique, the step stores it and the run goes on to the write
\* step; the critique step never fails and never is the step a run is
\* FAILED at.
C21_CritiqueNeverAborts ==
  \A i \in DOMAIN run :
    /\ run[i].step = 3 => run[i].pc \notin FailingPcs
    /\ (run[i].step > 3 /\ hist[i].critiqueGen \in {"failed", "unparsable", "null"})
         => /\ IsDegradedCritique(run[i].critique)
            /\ Exists(i) => reports[i].critique = Some(run[i].critique)
    /\ hist[i].critiqueGen # "none" => run[i].step > 3 \/ run[i].pc = "cancelled"

\* every attempt of the Critic's generation call failed, and the run has
\* completed all the same, with the degraded critique in its record
C21_Witness ==
  \E i \in DOMAIN run :
    /\ hist[i].critiqueGen = "failed"
    /\ run[i].pc = "completed"
    /\ reports[i].status = "COMPLETED"
    /\ reports[i].critique = Some(DegradedCritique)

\* the JSON of the reviewer's last answer held a finalReport shorter than
\* half of the draft
ReviewedShort(i) ==
  /\ hist[i].reviewGen = "object"
  /\ hist[i].reviewedLength > 0
  /\ 2 * hist[i].reviewedLength < run[i].draftReport.length

\* C22: when the text of the Reviewer's call cannot be parsed, reviewReport
\* returns the draft as finalReport with overallQuality "needs-work" and the
\* run is completed with the draft stored as finalReport; when the reviewed
\* report is shorter than 50% of the draft the review step does not fail.
C22_ReviewNeverLosesDraft ==
  \A i \in DOMAIN run :
    /\ hist[i].reviewGen = "unparsable"
         => /\ run[i].step > LastStep
            /\ run[i].pc \in {"completed", "cancelled"}
            /\ Exists(i)
                 => /\ reports[i].finalReport = Some(run[i].draftReport)
                    /\ reports[i].reportMetadata[1].reviewSummary = "needs-work"
                    /\ ~hist[i].cancelCalled => reports[i].status = "COMPLETED"
    /\ ReviewedShort(i) => run[i].step > LastStep /\ run[i].pc \in {"completed", "cancelled"}

\* the questions of the model's answer as the planner gets them: none when
\* the generation failed or the text is not a JSON object
AnsweredQuestions ==
  IF call.input.kind = "object" THEN call.input.text.body.questions ELSE <<>>

\* C23: every plan returned by planResearch has between MinQuestions and
\* MaxQuestions questions; an answer with more questions is cut to its
\* first MaxQuestions; an answer with fewer than MinQuestions questions
\* (none after the parse fallback) makes planResearch throw.
C23_PlannerEnforcesRange ==
  call.fn = "planResearch" =>
    LET out == call.output
        q == out.value.questions
    IN /\ out.ok => Len(q) >= MinQuestions /\ Len(q) <= MaxQuestions
       /\ (out.ok /\ Len(AnsweredQuestions) > MaxQuestions)
            => q = SubSeq(AnsweredQuestions, 1, MaxQuestions)
       /\ (out.ok /\ Len(AnsweredQuestions) <= MaxQuestions) => q = AnsweredQuestions
       /\ Len(AnsweredQuestions) < MinQuestions => ~out.ok
       /\ ~out.ok => Head(out.err) = "Failed to plan research"

\* the calls of generateText that answer, among the first retries ones
AnsweringCalls ==
  {k \in 1..call.input.retries : call.input.answers[getModel(call.input.tier)][k]}

FirstAnswer == CHOOSE k \in AnsweringCalls : \A j \in AnsweringCalls : k <= j

\* C24: generateWithRetry with retry bound r makes at most r calls, returns
\* the result of the first call that answers and makes no call after it,
\* waits BaseDelayMs doubled per attempt after every failed attempt but the
\* r-th, and after r failed calls throws an error that embeds the message of
\* the r-th failure; the tier enters only through the model that is called.
C24_RetryContract ==
  call.fn = "generateWithRetry" =>
    LET r == call.input.retries
        out == call.output
        waits == IF AnsweringCalls # {} THEN FirstAnswer - 1
                 ELSE IF r = 0 THEN 0 ELSE r - 1
    IN /\ out.calls <= r
       /\ out.ok <=> AnsweringCalls # {}
       /\ out.ok => out.calls = FirstAnswer /\ out.text = Bare([t |-> "text", attempt |-> FirstAnswer])
       /\ ~out.ok => out.calls = r
       /\ (~out.ok /\ r > 0) => out.err[2] = <<"api error", r>>
       /\ Len(out.delays) = waits
       /\ \A k \in 1..waits :
            out.delays[k] = IF k = 1 THEN BaseDelayMs ELSE 2 * out.delays[k - 1]

\* four attempts, the first three fail with the premium model: three waits
\* of 1, 2 and 4 seconds and the answer of the fourth call
C24_Witness ==
  /\ call.fn = "generateWithRetry"
  /\ call.input.tier = "premium" /\ call.input.retries = 4
  /\ call.output.ok /\ call.output.calls = 4
  /\ call.output.delays = <<1000, 2000, 4000>>
  /\ call.input.answers["gpt-4o-mini"][1]

\* a fenced json block is present: an opening fence and a closing fence
\* after it
HasFencedBlock(text) ==
  \E i, j \in 1..Len(text) : i < j /\ text[i] = "F" /\ text[j] = "E"

\* the texts as records, of every shape and every kind of body
RecordTexts ==
  UNION { {Bare([t |-> b]), Fenced([t |-> b]), Chatty([t |-> b])} :
            b \in {"object", "null", "garbage"} }

\* C25: parseJSONResponse never throws; when the content of the fenced json
\* block (if there is one, else the whole text) parses as JSON the parsed
\* value is returned, otherwise the fallback; the function on records used
\* by the agents agrees with it.
C25_ParseNeverThrows ==
  call.fn = "parseJSONResponse" =>
    LET text == call.input.text
        target == IF HasFencedBlock(text) THEN FenceGroup(text) ELSE text
    IN /\ ~call.output.threw
       /\ call.output.value = IF target \in {<<"V">>, <<"N">>}
                                 THEN JSONParse(target).value
                                 ELSE call.input.fallback
       /\ \A rt \in RecordTexts :
            Render(rt) = text =>
              parseJSONResponse(rt, ParseFallback).t = call.output.value.t

\* prose, then a json block that holds an object, then prose: the object
C25_Witness ==
  /\ call.fn = "parseJSONResponse"
  /\ call.input.text = <<"P", "F", "V", "E", "P">>
  /\ call.output = [threw |-> FALSE, value |-> [t |-> "object"]]

\* the keys whose entry is set or changed by the step (not deleted)
WrittenKeys ==
  {k \in DOMAIN rateLimitStore' :
     k \notin DOMAIN rateLimitStore \/ rateLimitStore'[k] # rateLimitStore[k]}

\* C26: at most maxRequests calls are allowed in one window; a call is
\* denied only inside a window that is full, and leaves the store as it was;
\* a call after resetTime has passed is allowed and opens a new window with
\* count 1; a call writes the entry of its own key only.
C26_RateLimit ==
  [][/\ \A k \in DOMAIN windows' :
          /\ windows'[k].allowed <= RateConfig(k).maxRequests
          /\ (windows'[k].denied /\ (k \notin DOMAIN windows \/ ~windows[k].denied))
               => /\ rateLimitStore' = rateLimitStore
                  /\ k \in DOMAIN rateLimitStore
                  /\ rateLimitStore[k].resetTime >= now
                  /\ rateLimitStore[k].count >= RateConfig(k).maxRequests
                  /\ windows[k].allowed = RateConfig(k).maxRequests
     /\ \A k \in WrittenKeys :
          /\ (k \in DOMAIN rateLimitStore /\ rateLimitStore[k].resetTime < now)
               => rateLimitStore'[k] =
                    [count |-> 1, resetTime |-> now + RateConfig(k).windowMs]
          /\ windows'[k].opened + RateConfig(k).windowMs = rateLimitStore'[k].resetTime
          /\ windows'[k].allowed = rateLimitStore'[k].count
          /\ \A j \in DOMAIN rateLimitStore \ {k} :
               /\ j \in DOMAIN rateLimitStore'
               /\ rateLimitStore'[j] = rateLimitStore[j]
     /\ \A k \in DOMAIN rateLimitStore \ DOMAIN rateLimitStore' :
          rateLimitStore[k].resetTime < now]_vars

\* one key is in its second window, which is full and has denied a call,
\* while another key of the same identifier is still in its first window
C26_Witness ==
  /\ RateKey("u1", "a") \in DOMAIN windows /\ RateKey("u1", "b") \in DOMAIN windows
  /\ windows[RateKey("u1", "a")].opened > 2
  /\ windows[RateKey("u1", "a")].allowed = 2
  /\ windows[RateKey("u1", "a")].denied
  /\ rateLimitStore[RateKey("u1", "a")].count = 2
  /\ windows[RateKey("u1", "b")].opened = 0

\* C27: credits are never negative and never increase; the credits a user
\* started with are the current credits plus the number of the user's
\* ReportRuns; the engine and the cancel handler leave the credits alone, so
\* a run that ends FAILED or CANCELLED gives nothing back.
C27_CreditConservation ==
  [][\A u \in Users :
       /\ credits'[u] >= 0
       /\ credits'[u] <= credits[u]
       /\ initCredits'[u] = initCredits[u]
       /\ initCredits[u] = credits'[u]
            + Cardinality({i \in DOMAIN reports' : reports'[i].userId = u})
       /\ (\E i \in DOMAIN reports \cap DOMAIN reports' :
             /\ reports'[i].status \in {"FAILED", "CANCELLED"}
             /\ reports[i].status # reports'[i].status)
            => credits' = credits]_vars

\* the user's only credit paid for a run that failed in the research step,
\* and a cancel request ended in an error: the balance is still 0
C27_Witness ==
  /\ initCredits["u1"] = 1 /\ credits["u1"] = 0
  /\ \E i \in DOMAIN run :
       /\ run[i].pc = "failed" /\ run[i].step = 2
       /\ reports[i].status = "FAILED" /\ reports[i].userId = "u1"
  /\ \E c \in CancelIds : canc[c].pc = "done" /\ canc[c].response = "ERROR"

\* C29: Start-run answers with the insufficient-credits message only when
\* the user has fewer than 1 credit at the time of the debit attempt, and
\* whenever it answers so the credits and the reports are unchanged.
C29_InsufficientOnlyWithoutCredit ==
  [][\A r \in ReqIds :
       (req[r].pc = "validated" /\ req'[r].response = "INSUFFICIENT_CREDITS")
         => /\ credits[req[r].user] < 1
            /\ credits' = credits
            /\ reports' = reports]_vars

\* C30: once Delete run has removed the record, no engine write brings a
\* record with that id back; the engine starts at most Retries + 1 more
\* step executions and runs its catch block at most Retries + 1 times, none
\* of which completes a step that writes, and then stops; the credit spent
\* on the run is not given back.
C30_DeleteIsFinal ==
  /\ \A i \in ReportIds :
       hist[i].deleted =>
         /\ i \notin DOMAIN reports
         /\ hist[i].execsAfterDelete <= Retries + 1
         /\ i \in DOMAIN run
              => /\ run[i].catchAttempt <= Retries
                 /\ run[i].execs <= Retries + 1
                 /\ hist[i].deletedInFlight => run[i].pc # "completed"
  /\ \A u \in Users : credits[u] = initCredits[u]
        - Cardinality({r \in ReqIds : req[r].user = u /\ req[r].reportId # 0})

\* the record was deleted while the write step was running: the review
\* step was executed Retries + 1 times, the catch block ran out of retries
\* too, and the run has stopped without a record
C30_Witness ==
  \E i \in DOMAIN run :
    /\ hist[i].deletedInFlight /\ i \notin DOMAIN reports
    /\ run[i].pc = "failed" /\ run[i].step = LastStep
    /\ hist[i].execsAfterDelete = Retries + 1
    /\ run[i].catchAttempt = Retries
    /\ run[i].error = NotFound
    /\ credits["u1"] = 0

\* C28: every ReportRun that was created eventually has a terminal status.
C28_EventuallyTerminal ==
  \A i \in ReportIds :
    (i \in DOMAIN reports) ~>
      (i \in DOMAIN reports /\ reports[i].status \in TerminalStatuses)

====
